---- MODULE Spec2Model ----
(***************************************************************************)
(* Model of semver-cli (src/main.go): one process run of the `semver`      *)
(* command.  The handlers of main() are translated from src/main.go.  The  *)
(* version engine they call (package semver: NewVersion, Compare, Inc*,    *)
(* Set*, NewConstraint, Validate) has no code under src/; it is modelled   *)
(* from sections 3 and 4 of the specification.                             *)
(*                                                                         *)
(* A text (command-line argument, printed line) is a sequence of           *)
(* one-character strings.                                                  *)
(***************************************************************************)
EXTENDS Integers, Sequences, FiniteSets, TLC

VARIABLES pc, command, argv, verbose, filter_pre_release, filter_build,
          stdout, stderr, exitCode, session

vars == <<pc, command, argv, verbose, filter_pre_release, filter_build,
          stdout, stderr, exitCode, session>>

(***************************************************************************)
(* Bounds of the model.                                                    *)
(***************************************************************************)
MaxNum == 1

MaxVersions == 3

(***************************************************************************)
(* Characters and decimal text.                                            *)
(***************************************************************************)
Digit == <<"0", "1", "2", "3", "4", "5", "6", "7", "8", "9">>

AsciiOrder ==
    <<"-">> \o Digit \o
    <<"A", "B", "C", "D", "E", "F", "G", "H", "I", "J", "K", "L", "M",
      "N", "O", "P", "Q", "R", "S", "T", "U", "V", "W", "X", "Y", "Z">> \o
    <<"a", "b", "c", "d", "e", "f", "g", "h", "i", "j", "k", "l", "m",
      "n", "o", "p", "q", "r", "s", "t", "u", "v", "w", "x", "y", "z">>

Range(f) == {f[i] : i \in DOMAIN f}

DigitChars == Range(Digit)

IdentChars == Range(AsciiOrder)

Rank(c) == CHOOSE i \in DOMAIN AsciiOrder : AsciiOrder[i] = c

DigitVal(c) == (CHOOSE i \in DOMAIN Digit : Digit[i] = c) - 1

RECURSIVE ParseUint(_)
ParseUint(s) ==
    IF s = <<>> THEN 0
    ELSE ParseUint(SubSeq(s, 1, Len(s) - 1)) * 10 + DigitVal(s[Len(s)])

RECURSIVE FormatUint(_)
FormatUint(n) ==
    IF n < 10 THEN <<Digit[n + 1]>>
    ELSE FormatUint(n \div 10) \o <<Digit[(n % 10) + 1]>>

IndexOf(s, c) ==
    IF \E i \in 1..Len(s) : s[i] = c
    THEN CHOOSE i \in 1..Len(s) : s[i] = c /\ \A j \in 1..(i - 1) : s[j] # c
    ELSE 0

RECURSIVE Split(_, _)
Split(s, c) ==
    LET i == IndexOf(s, c)
    IN  IF i = 0 THEN <<s>>
        ELSE <<SubSeq(s, 1, i - 1)>> \o Split(SubSeq(s, i + 1, Len(s)), c)

(***************************************************************************)
(* Version Model (specification 3 and 4.1).                                *)
(***************************************************************************)
IsNumeric(s) == s # <<>> /\ \A i \in 1..Len(s) : s[i] \in DigitChars

NoLeadingZero(s) == Len(s) = 1 \/ s[1] # "0"

CoreNumber(s) == IsNumeric(s) /\ NoLeadingZero(s)

ValidIdent(s) == s # <<>> /\ \A i \in 1..Len(s) : s[i] \in IdentChars

validatePrerelease(p) ==
    LET ids == Split(p, ".")
    IN  \A i \in 1..Len(ids) :
            ValidIdent(ids[i]) /\ (IsNumeric(ids[i]) => NoLeadingZero(ids[i]))

validateMetadata(m) ==
    LET ids == Split(m, ".")
    IN  \A i \in 1..Len(ids) : ValidIdent(ids[i])

Version(ma, mi, pa, pre, meta) ==
    [major |-> ma, minor |-> mi, patch |-> pa, pre |-> pre, metadata |-> meta]

NoVersion == Version(0, 0, 0, <<>>, <<>>)

Ok(v) == [ok |-> TRUE, v |-> v, err |-> "nil"]

Err(e) == [ok |-> FALSE, v |-> NoVersion, err |-> e]

NewVersion(text) ==
    LET s0    == IF text # <<>> /\ text[1] \in {"v", "V"} THEN Tail(text) ELSE text
        plus  == IndexOf(s0, "+")
        meta  == IF plus > 0 THEN SubSeq(s0, plus + 1, Len(s0)) ELSE <<>>
        s1    == IF plus > 0 THEN SubSeq(s0, 1, plus - 1) ELSE s0
        dash  == IndexOf(s1, "-")
        pre   == IF dash > 0 THEN SubSeq(s1, dash + 1, Len(s1)) ELSE <<>>
        s2    == IF dash > 0 THEN SubSeq(s1, 1, dash - 1) ELSE s1
        core  == Split(s2, ".")
        valid == /\ Len(core) = 3
                 /\ \A i \in 1..3 : CoreNumber(core[i])
                 /\ dash > 0 => validatePrerelease(pre)
                 /\ plus > 0 => validateMetadata(meta)
    IN  IF valid
        THEN Ok(Version(ParseUint(core[1]), ParseUint(core[2]),
                        ParseUint(core[3]), pre, meta))
        ELSE Err("InvalidFormat")

String(v) ==
    FormatUint(v.major) \o <<".">> \o FormatUint(v.minor) \o <<".">> \o
    FormatUint(v.patch) \o
    (IF v.pre # <<>> THEN <<"-">> \o v.pre ELSE <<>>) \o
    (IF v.metadata # <<>> THEN <<"+">> \o v.metadata ELSE <<>>)

CompareNat(x, y) == IF x < y THEN -1 ELSE IF x > y THEN 1 ELSE 0

RECURSIVE CompareText(_, _)
CompareText(s, t) ==
    IF s = <<>> /\ t = <<>> THEN 0
    ELSE IF s = <<>> THEN -1
    ELSE IF t = <<>> THEN 1
    ELSE IF s[1] # t[1] THEN CompareNat(Rank(s[1]), Rank(t[1]))
    ELSE CompareText(Tail(s), Tail(t))

CompareIdent(x, y) ==
    IF IsNumeric(x) /\ IsNumeric(y) THEN CompareNat(ParseUint(x), ParseUint(y))
    ELSE IF IsNumeric(x) THEN -1
    ELSE IF IsNumeric(y) THEN 1
    ELSE CompareText(x, y)

RECURSIVE CompareIdents(_, _)
CompareIdents(xs, ys) ==
    IF xs = <<>> /\ ys = <<>> THEN 0
    ELSE IF xs = <<>> THEN -1
    ELSE IF ys = <<>> THEN 1
    ELSE IF CompareIdent(xs[1], ys[1]) # 0 THEN CompareIdent(xs[1], ys[1])
    ELSE CompareIdents(Tail(xs), Tail(ys))

ComparePrerelease(p, q) ==
    IF p = <<>> /\ q = <<>> THEN 0
    ELSE IF p = <<>> THEN 1
    ELSE IF q = <<>> THEN -1
    ELSE CompareIdents(Split(p, "."), Split(q, "."))

Compare(a, b) ==
    IF a.major # b.major THEN CompareNat(a.major, b.major)
    ELSE IF a.minor # b.minor THEN CompareNat(a.minor, b.minor)
    ELSE IF a.patch # b.patch THEN CompareNat(a.patch, b.patch)
    ELSE ComparePrerelease(a.pre, b.pre)

LessThan(a, b) == Compare(a, b) < 0

GreaterThan(a, b) == Compare(a, b) > 0

Equal(a, b) == Compare(a, b) = 0

IncMajor(v) == Version(v.major + 1, 0, 0, <<>>, <<>>)

IncMinor(v) == Version(v.major, v.minor + 1, 0, <<>>, <<>>)

IncPatch(v) == Version(v.major, v.minor, v.patch + 1, <<>>, <<>>)

SetPrerelease(v, text) ==
    IF validatePrerelease(text)
    THEN Ok([v EXCEPT !.pre = text])
    ELSE Err("InvalidIdentifier")

SetMetadata(v, text) ==
    IF validateMetadata(text)
    THEN Ok([v EXCEPT !.metadata = text])
    ELSE Err("InvalidIdentifier")

(***************************************************************************)
(* Constraint Engine (specification 3 and 4.2): comparator clauses, caret  *)
(* and tilde lowered to primitive clauses at parse time, groups of         *)
(* space-separated clauses separated by "," or "|".                        *)
(***************************************************************************)
RECURSIVE SplitAny(_, _)
SplitAny(s, seps) ==
    IF \E i \in 1..Len(s) : s[i] \in seps
    THEN LET i == CHOOSE k \in 1..Len(s) :
                      s[k] \in seps /\ \A j \in 1..(k - 1) : s[j] \notin seps
         IN  <<SubSeq(s, 1, i - 1)>> \o SplitAny(SubSeq(s, i + 1, Len(s)), seps)
    ELSE <<s>>

RECURSIVE Flatten(_)
Flatten(ss) == IF ss = <<>> THEN <<>> ELSE ss[1] \o Flatten(Tail(ss))

ClauseOp(s) ==
    IF Len(s) >= 2 /\ SubSeq(s, 1, 2) \in {<<">", "=">>, <<"<", "=">>, <<"!", "=">>}
    THEN SubSeq(s, 1, 2)
    ELSE IF s # <<>> /\ s[1] \in {">", "<", "=", "^", "~"} THEN <<s[1]>>
    ELSE <<>>

Primitive(op, v) == [op |-> op, v |-> v]

CaretUpper(v) ==
    IF v.major > 0 THEN IncMajor(v)
    ELSE IF v.minor > 0 THEN IncMinor(v)
    ELSE IncPatch(v)

Lower(op, v) ==
    IF op = <<"^">> THEN <<Primitive(<<">", "=">>, v), Primitive(<<"<">>, CaretUpper(v))>>
    ELSE IF op = <<"~">> THEN <<Primitive(<<">", "=">>, v), Primitive(<<"<">>, IncMinor(v))>>
    ELSE IF op = <<>> THEN <<Primitive(<<"=">>, v)>>
    ELSE <<Primitive(op, v)>>

ParseClause(s) ==
    LET op == ClauseOp(s)
        r  == NewVersion(SubSeq(s, Len(op) + 1, Len(s)))
    IN  [ok |-> r.ok, prims |-> IF r.ok THEN Lower(op, r.v) ELSE <<>>]

ParseGroup(g) ==
    LET cs == Split(g, " ")
    IN  [ok    |-> \A i \in 1..Len(cs) : ParseClause(cs[i]).ok,
         prims |-> Flatten([i \in 1..Len(cs) |-> ParseClause(cs[i]).prims])]

NewConstraint(text) ==
    LET gs == SplitAny(text, {",", "|"})
    IN  IF \A i \in 1..Len(gs) : ParseGroup(gs[i]).ok
        THEN [ok |-> TRUE, groups |-> [i \in 1..Len(gs) |-> ParseGroup(gs[i]).prims],
              err |-> "nil"]
        ELSE [ok |-> FALSE, groups |-> <<>>, err |-> "InvalidConstraint"]

SameCore(a, b) == a.major = b.major /\ a.minor = b.minor /\ a.patch = b.patch

Check(cl, v) ==
    LET c == Compare(v, cl.v)
    IN  /\ v.pre # <<>> => (cl.v.pre # <<>> /\ SameCore(v, cl.v))
        /\ CASE cl.op = <<"=">>      -> c = 0
             [] cl.op = <<"!", "=">> -> c # 0
             [] cl.op = <<">">>      -> c > 0
             [] cl.op = <<">", "=">> -> c >= 0
             [] cl.op = <<"<">>      -> c < 0
             [] cl.op = <<"<", "=">> -> c <= 0

Reason(cl, v) ==
    String(v) \o <<" ", "f", "a", "i", "l", "s", " ">> \o cl.op \o String(cl.v)

Failing(g, v) ==
    LET Fails(cl) == ~Check(cl, v)
        bad == SelectSeq(g, Fails)
    IN  [i \in 1..Len(bad) |-> Reason(bad[i], v)]

Validate(c, v) ==
    LET does == \E i \in 1..Len(c.groups) : Failing(c.groups[i], v) = <<>>
    IN  [does |-> does,
         msgs |-> IF does THEN <<>>
                  ELSE Flatten([i \in 1..Len(c.groups) |-> Failing(c.groups[i], v)])]

(***************************************************************************)
(* src/main.go: outcomes of a run, and the two must-parse helpers.         *)
(***************************************************************************)
Exit(code, out, errs) ==
    [pc |-> "exited", exitCode |-> code, stdout |-> out, stderr |-> errs]

Return(out) ==
    [pc |-> "returned", exitCode |-> 0, stdout |-> out, stderr |-> <<>>]

Message(msg, ctx, err, arg) == [msg |-> msg, ctx |-> ctx, err |-> err, arg |-> arg]

IndexPanic ==
    [pc |-> "panicked", exitCode |-> 2, stdout |-> <<>>,
     stderr |-> <<Message("panic: runtime error: index out of range", "", "", <<>>)>>]


(* Faulty variant of mustParseVersionExit (C3): a parse failure leaves    *)
(* with exit code 1.                                                       *)
mustParseVersionExitOne(s, ctx, err) ==
    Exit(1, <<>>, <<Message("Failed to parse version", ctx, err, s)>>)

mustParseVersionExit(s, ctx, err) ==
    Exit(-1, <<>>, <<Message("Failed to parse version", ctx, err, s)>>)

mustParseConstraintsExit(err) ==
    Exit(-1, <<>>, <<Message("Failed to parse constraints", "", err, <<>>)>>)

unknownComponentExit(name) ==
    Exit(-1, <<>>, <<Message("unknown component name", "", "", name)>>)

MAJOR == <<"m", "a", "j", "o", "r">>

MINOR == <<"m", "i", "n", "o", "r">>

PATCH == <<"p", "a", "t", "c", "h">>

PRERELEASE == <<"p", "r", "e", "r", "e", "l", "e", "a", "s", "e">>

METADATA == <<"m", "e", "t", "a", "d", "a", "t", "a">>

(***************************************************************************)
(* src/main.go: the cases of main().                                       *)
(***************************************************************************)
caseSatisfies(version, constraints, verb) ==
    LET v == NewVersion(version)
        c == NewConstraint(constraints)
        r == Validate(c, v.v)
    IN  IF ~v.ok THEN mustParseVersionExit(version, "VERSION", v.err)
        ELSE IF ~c.ok THEN mustParseConstraintsExit(c.err)
        ELSE IF ~r.does THEN Exit(1, IF verb THEN r.msgs ELSE <<>>, <<>>)
        ELSE Exit(0, <<>>, <<>>)


(* Faulty variant of caseGreater (C8): greater tested as not-less.         *)
caseGreaterNotLess(A, B, verb) ==
    LET a == NewVersion(A)
        b == NewVersion(B)
    IN  IF ~a.ok THEN mustParseVersionExit(A, "A", a.err)
        ELSE IF ~b.ok THEN mustParseVersionExit(B, "B", b.err)
        ELSE IF LessThan(a.v, b.v) THEN Exit(1, IF verb THEN <<B>> ELSE <<>>, <<>>)
        ELSE Exit(0, IF verb THEN <<A>> ELSE <<>>, <<>>)

caseGreater(A, B, verb) ==
    LET a == NewVersion(A)
        b == NewVersion(B)
    IN  IF ~a.ok THEN mustParseVersionExit(A, "A", a.err)
        ELSE IF ~b.ok THEN mustParseVersionExit(B, "B", b.err)
        ELSE IF ~GreaterThan(a.v, b.v) THEN Exit(1, IF verb THEN <<B>> ELSE <<>>, <<>>)
        ELSE Exit(0, IF verb THEN <<A>> ELSE <<>>, <<>>)

caseLesser(A, B, verb) ==
    LET a == NewVersion(A)
        b == NewVersion(B)
    IN  IF ~a.ok THEN mustParseVersionExit(A, "A", a.err)
        ELSE IF ~b.ok THEN mustParseVersionExit(B, "B", b.err)
        ELSE IF ~LessThan(a.v, b.v) THEN Exit(1, IF verb THEN <<B>> ELSE <<>>, <<>>)
        ELSE Exit(0, IF verb THEN <<A>> ELSE <<>>, <<>>)


(* Faulty variant of caseEqual (C9): equality tested on the rendered text  *)
(* of the two versions.                                                    *)
caseEqualByText(A, B) ==
    LET a == NewVersion(A)
        b == NewVersion(B)
    IN  IF ~a.ok THEN mustParseVersionExit(A, "A", a.err)
        ELSE IF ~b.ok THEN mustParseVersionExit(B, "B", b.err)
        ELSE IF String(a.v) # String(b.v) THEN Exit(1, <<>>, <<>>)
        ELSE Exit(0, <<>>, <<>>)

caseEqual(A, B) ==
    LET a == NewVersion(A)
        b == NewVersion(B)
    IN  IF ~a.ok THEN mustParseVersionExit(A, "A", a.err)
        ELSE IF ~b.ok THEN mustParseVersionExit(B, "B", b.err)
        ELSE IF ~Equal(a.v, b.v) THEN Exit(1, <<>>, <<>>)
        ELSE Exit(0, <<>>, <<>>)


(* Faulty variant of caseInc (C6): the component name is checked before    *)
(* the version is parsed.                                                  *)
caseIncNameFirst(name, version) ==
    LET v == NewVersion(version)
    IN  IF name \notin {MAJOR, MINOR, PATCH} THEN unknownComponentExit(name)
        ELSE IF ~v.ok THEN mustParseVersionExit(version, "VERSION", v.err)
        ELSE IF name = MAJOR THEN Return(<<String(IncMajor(v.v))>>)
        ELSE IF name = MINOR THEN Return(<<String(IncMinor(v.v))>>)
        ELSE Return(<<String(IncPatch(v.v))>>)

caseInc(name, version) ==
    LET v == NewVersion(version)
    IN  IF ~v.ok THEN mustParseVersionExit(version, "VERSION", v.err)
        ELSE IF name = MAJOR THEN Return(<<String(IncMajor(v.v))>>)
        ELSE IF name = MINOR THEN Return(<<String(IncMinor(v.v))>>)
        ELSE IF name = PATCH THEN Return(<<String(IncPatch(v.v))>>)
        ELSE unknownComponentExit(name)

caseGet(name, version) ==
    LET v == NewVersion(version)
    IN  IF ~v.ok THEN mustParseVersionExit(version, "VERSION", v.err)
        ELSE IF name = MAJOR THEN Return(<<FormatUint(v.v.major)>>)
        ELSE IF name = MINOR THEN Return(<<FormatUint(v.v.minor)>>)
        ELSE IF name = PATCH THEN Return(<<FormatUint(v.v.patch)>>)
        ELSE IF name = PRERELEASE THEN Return(<<v.v.pre>>)
        ELSE IF name = METADATA THEN Return(<<v.v.metadata>>)
        ELSE unknownComponentExit(name)

setResult(r, msg) ==
    IF ~r.ok THEN Exit(-1, <<>>, <<Message(msg, "", r.err, <<>>)>>)
    ELSE Return(<<String(r.v)>>)

caseSet(name, version, value) ==
    LET v == NewVersion(version)
    IN  IF ~v.ok THEN mustParseVersionExit(version, "VERSION", v.err)
        ELSE IF name = PRERELEASE
             THEN setResult(SetPrerelease(v.v, value), "invalid prerelease")
        ELSE IF name = METADATA
             THEN setResult(SetMetadata(v.v, value), "invalid metadata")
        ELSE unknownComponentExit(name)

(* Faulty variant of filterPreRelease (C2): the filter keeps every version. *)
filterPreReleaseKeepsAll(flag, all) == all

(* The two filters of `greatest` (src/main.go 181-189 and 191-199).        *)
filterPreRelease(flag, all) ==
    LET Keep(v) == v.pre = <<>>
    IN  IF flag THEN SelectSeq(all, Keep) ELSE all

filterBuild(flag, filtered) ==
    LET Keep(v) == v.metadata = <<>>
    IN  IF flag THEN SelectSeq(filtered, Keep) ELSE filtered

(* sort.Slice(filtered_versions, less): every arrangement of the slice in  *)
(* which no later element is less than an earlier one (sort.Slice is not   *)
(* stable).                                                                *)
sortSlice(slice) ==
    LET n == Len(slice)
    IN  {p \in {[i \in 1..n |-> slice[f[i]]] : f \in Permutations(1..n)} :
            \A i \in 1..n : \A j \in (i + 1)..n : ~LessThan(p[j], p[i])}

lastOf(sorted) ==
    IF Len(sorted) = 0 THEN IndexPanic
    ELSE Return(<<String(sorted[Len(sorted)])>>)

caseGreatest(versions, fpr, fb) ==
    LET n        == Len(versions)
        bad      == {i \in 1..n : ~NewVersion(versions[i]).ok}
        first    == CHOOSE i \in bad : \A j \in bad : i <= j
        all      == [i \in 1..n |-> NewVersion(versions[i]).v]
        filtered == filterBuild(fb, filterPreRelease(fpr, all))
    IN  IF bad # {}
        THEN {mustParseVersionExit(versions[first], "VERSION",
                                   NewVersion(versions[first]).err)}
        ELSE {lastOf(sorted) : sorted \in sortSlice(filtered)}

(***************************************************************************)
(* Command lines of the model.                                             *)
(***************************************************************************)
Core(ma, mi, pa) ==
    FormatUint(ma) \o <<".">> \o FormatUint(mi) \o <<".">> \o FormatUint(pa)

ALPHA == <<"a", "l", "p", "h", "a">>

BETA == <<"b", "e", "t", "a">>

PreSuffixes == {<<>>, <<"-", "a">>, <<"-", "1">>, <<"-", "a", ".", "1">>}

MetaSuffixes == {<<>>, <<"+", "b">>}

ValidTexts ==
    {Core(ma, mi, 0) \o p \o m :
        ma \in 0..MaxNum, mi \in 0..MaxNum, p \in PreSuffixes, m \in MetaSuffixes}
    \cup {Core(1, 2, 3) \o <<"-", "r", "c", ".", "1", "+", "b">>,
          <<"v">> \o Core(1, 0, 0)}

InvalidTexts ==
    {<<"1", ".", "2">>, Core(1, 2, 3) \o <<".", "4">>, <<"0">> \o Core(1, 2, 3),
     <<>>, <<"x">>, Core(1, 0, 0) \o <<"-", "0", "1">>,
     Core(1, 0, 0) \o <<"-", "a", ".", ".", "b">>}

VersionTexts == ValidTexts \cup InvalidTexts

ComponentTexts == {MAJOR, MINOR, PATCH, PRERELEASE, METADATA, <<"b", "u", "i", "l", "d">>, <<>>}

ValueTexts ==
    {<<"r", "c">>, <<"r", "c", ".", "1">>, <<"0", "1">>, <<"0", "1", "a">>,
     <<>>, <<"a", ".", ".", "b">>, <<"b", "+", "c">>}

ConstraintTexts ==
    {<<">", "=">> \o Core(1, 0, 0) \o <<" ", "<">> \o Core(2, 0, 0),
     <<"^">> \o Core(1, 2, 3),
     <<"~">> \o Core(0, 1, 0),
     <<"=">> \o Core(1, 0, 0) \o <<"-", "a">>,
     <<"<">> \o Core(0, 1, 0) \o <<",">> \o <<">">> \o Core(1, 0, 0),
     <<"!", "=">> \o Core(1, 1, 0) \o <<"|">> \o Core(1, 1, 0),
     Core(0, 0, 0),
     <<" ">>, <<>>, <<">", ">">> \o Core(1, 0, 0), <<">", "=">> \o <<"1", ".", "x", ".", "0">>}

ListTexts ==
    {Core(1, 0, 0), Core(1, 2, 0) \o <<"-">> \o BETA, Core(1, 1, 0),
     Core(1, 1, 0) \o <<"+", "b">>, Core(1, 2, 0) \o <<"-">> \o BETA \o <<"+", "b">>,
     Core(1, 2, 0) \o <<"-">> \o ALPHA, <<"1", ".", "2">>}

OrdTexts ==
    {Core(1, 0, 0) \o <<"-">> \o ALPHA,
     Core(1, 0, 0) \o <<"-">> \o ALPHA \o <<".", "1">>,
     Core(1, 0, 0) \o <<"-">> \o ALPHA \o <<".">> \o BETA,
     Core(1, 0, 0) \o <<"-">> \o BETA,
     Core(1, 0, 0) \o <<"-">> \o BETA \o <<".", "2">>,
     Core(1, 0, 0) \o <<"-">> \o BETA \o <<".", "1", "1">>,
     Core(1, 0, 0) \o <<"-", "r", "c", ".", "1">>,
     Core(1, 0, 0),
     Core(1, 0, 0) \o <<"+", "b">>,
     Core(1, 0, 0) \o <<"-">> \o ALPHA \o <<"+", "b">>,
     Core(0, 1, 1),
     Core(1, 1, 0) \o <<"-", "1">>}

Commands ==
    {"satisfies", "greater", "lesser", "equal", "inc", "get", "set", "greatest"}

ArgsOf(cmd) ==
    CASE cmd = "satisfies" -> {<<v, c>> : v \in VersionTexts, c \in ConstraintTexts}
      [] cmd \in {"greater", "lesser", "equal"} -> VersionTexts \X VersionTexts
      [] cmd \in {"inc", "get"} -> ComponentTexts \X VersionTexts
      [] cmd = "set" -> ComponentTexts \X VersionTexts \X ValueTexts
      [] cmd = "greatest" -> UNION {[1..n -> ListTexts] : n \in 1..MaxVersions}

(***************************************************************************)
(* One run of the program: Init is the parsed command line (kingpin), each *)
(* action is one case of the switch in main().                             *)
(***************************************************************************)
Init ==
    /\ pc = "start"
    /\ command \in Commands
    /\ argv \in ArgsOf(command)
    /\ verbose \in BOOLEAN
    /\ filter_pre_release \in IF command = "greatest" THEN BOOLEAN ELSE {FALSE}
    /\ filter_build \in IF command = "greatest" THEN BOOLEAN ELSE {FALSE}
    /\ stdout = <<>>
    /\ stderr = <<>>
    /\ exitCode = 0
    /\ session = <<>>

Finish(o) ==
    /\ pc' = o.pc
    /\ exitCode' = o.exitCode
    /\ stdout' = o.stdout
    /\ stderr' = o.stderr
    /\ UNCHANGED <<command, argv, verbose, filter_pre_release, filter_build, session>>

Satisfies ==
    /\ pc = "start" /\ command = "satisfies"
    /\ Finish(caseSatisfies(argv[1], argv[2], verbose))

Greater ==
    /\ pc = "start" /\ command = "greater"
    /\ Finish(caseGreater(argv[1], argv[2], verbose))

Lesser ==
    /\ pc = "start" /\ command = "lesser"
    /\ Finish(caseLesser(argv[1], argv[2], verbose))

EqualCmd ==
    /\ pc = "start" /\ command = "equal"
    /\ Finish(caseEqual(argv[1], argv[2]))

Inc ==
    /\ pc = "start" /\ command = "inc"
    /\ Finish(caseInc(argv[1], argv[2]))

Get ==
    /\ pc = "start" /\ command = "get"
    /\ Finish(caseGet(argv[1], argv[2]))

Set ==
    /\ pc = "start" /\ command = "set"
    /\ Finish(caseSet(argv[1], argv[2], argv[3]))

Greatest ==
    /\ pc = "start" /\ command = "greatest"
    /\ \E o \in caseGreatest(argv, filter_pre_release, filter_build) : Finish(o)

Next ==
    \/ Satisfies
    \/ Greater
    \/ Lesser
    \/ EqualCmd
    \/ Inc
    \/ Get
    \/ Set
    \/ Greatest

Spec == Init /\ [][Next]_vars

(***************************************************************************)
(* A session of five runs over three versions A, B, C (argv):              *)
(* greater A B, equal A B, lesser A B, lesser B C, lesser A C.  Each run   *)
(* is a whole case of main(); its outcome is appended to session.          *)
(***************************************************************************)
InitOrd ==
    /\ pc = "start"
    /\ command = "session"
    /\ argv \in OrdTexts \X OrdTexts \X OrdTexts
    /\ verbose \in BOOLEAN
    /\ filter_pre_release = FALSE
    /\ filter_build = FALSE
    /\ stdout = <<>>
    /\ stderr = <<>>
    /\ exitCode = 0
    /\ session = <<>>

Record(o) ==
    /\ session' = Append(session, o)
    /\ UNCHANGED <<pc, command, argv, verbose, filter_pre_release, filter_build,
                   stdout, stderr, exitCode>>

SessionGreater ==
    /\ command = "session" /\ Len(session) = 0
    /\ Record(caseGreater(argv[1], argv[2], verbose))

SessionEqual ==
    /\ command = "session" /\ Len(session) = 1
    /\ Record(caseEqual(argv[1], argv[2]))

SessionLesser ==
    /\ command = "session" /\ Len(session) \in 2..4
    /\ LET i == IF Len(session) = 3 THEN 2 ELSE 1
           j == IF Len(session) = 2 THEN 2 ELSE 3
       IN  Record(caseLesser(argv[i], argv[j], verbose))

NextOrd ==
    \/ SessionGreater
    \/ SessionEqual
    \/ SessionLesser

SpecOrd == InitOrd /\ [][NextOrd]_vars

(***************************************************************************)
(* Properties.                                                             *)
(***************************************************************************)
Done == pc # "start"

Parsed(i) == NewVersion(argv[i]).v

AllValid == \A i \in 1..Len(argv) : NewVersion(argv[i]).ok

(* C1: for `greatest` over a non-empty list of valid versions and every    *)
(* flag combination, the run never reaches an index-out-of-range access on *)
(* the filtered list: an empty filtered list is detected as an error.      *)
C1_EmptyFilteredListDetected ==
    (command = "greatest" /\ Done /\ AllValid) => pc # "panicked"

Remaining ==
    {i \in 1..Len(argv) :
        /\ filter_pre_release => Parsed(i).pre = <<>>
        /\ filter_build => Parsed(i).metadata = <<>>}

BooleanCommands == {"satisfies", "greater", "lesser", "equal"}

InputsParsed ==
    /\ NewVersion(argv[1]).ok
    /\ IF command = "satisfies" THEN NewConstraint(argv[2]).ok
       ELSE NewVersion(argv[2]).ok

Relation ==
    CASE command = "satisfies" -> Validate(NewConstraint(argv[2]), Parsed(1)).does
      [] command = "greater"   -> GreaterThan(Parsed(1), Parsed(2))
      [] command = "lesser"    -> LessThan(Parsed(1), Parsed(2))
      [] command = "equal"     -> Equal(Parsed(1), Parsed(2))

(* C3: a run of satisfies, greater, lesser or equal ends with one exit     *)
(* code: 0 iff every input parsed and the relation is true, 1 iff every    *)
(* input parsed and the relation is false, -1 iff an input failed to       *)
(* parse, and then a message is on standard error and nothing on standard  *)
(* output; standard output is written only when verbose is set.            *)
C3_ExitCodeConvention ==
    (command \in BooleanCommands /\ Done) =>
        /\ pc = "exited"
        /\ exitCode \in {0, 1, -1}
        /\ exitCode = 0 <=> (InputsParsed /\ Relation)
        /\ exitCode = 1 <=> (InputsParsed /\ ~Relation)
        /\ exitCode = -1 <=> ~InputsParsed
        /\ ~InputsParsed => (stderr # <<>> /\ stdout = <<>>)
        /\ stdout # <<>> => verbose

C3_Witness ==
    /\ command = "satisfies" /\ pc = "exited" /\ verbose
    /\ NewVersion(argv[1]).ok /\ ~NewConstraint(argv[2]).ok
    /\ exitCode = -1 /\ stdout = <<>>
    /\ Len(stderr) = 1 /\ stderr[1].msg = "Failed to parse constraints"

Accepted ==
    CASE command = "inc" -> {MAJOR, MINOR, PATCH}
      [] command = "get" -> {MAJOR, MINOR, PATCH, PRERELEASE, METADATA}
      [] command = "set" -> {PRERELEASE, METADATA}

UnknownComponentRun ==
    command \in {"inc", "get", "set"} /\ Done /\ argv[1] \notin Accepted

(* C6 as stated: for inc, get and set a component name outside the         *)
(* command's accepted set always yields the unknown-component message on   *)
(* standard error, the error exit code and nothing on standard output,     *)
(* whether or not the VERSION argument is valid.                           *)
C6_UnknownComponentFirst ==
    UnknownComponentRun =>
        /\ pc = "exited" /\ exitCode = -1 /\ stdout = <<>>
        /\ stderr = <<Message("unknown component name", "", "", argv[1])>>

(* C6 amended: such a run exits with the error code and prints nothing on  *)
(* standard output; the name is checked after VERSION is parsed, so the    *)
(* message on standard error is the unknown-component message when VERSION *)
(* is valid and the version parse failure when it is not.                  *)
C6_UnknownComponentAfterParse ==
    UnknownComponentRun =>
        /\ pc = "exited" /\ exitCode = -1 /\ stdout = <<>>
        /\ Len(stderr) = 1
        /\ stderr[1].msg = IF NewVersion(argv[2]).ok THEN "unknown component name"
                           ELSE "Failed to parse version"
        /\ stderr[1].arg = IF NewVersion(argv[2]).ok THEN argv[1] ELSE argv[2]

C6_Witness ==
    /\ UnknownComponentRun /\ command = "set"
    /\ ~NewVersion(argv[2]).ok
    /\ stderr = <<Message("Failed to parse version", "VERSION", "InvalidFormat", argv[2])>>

ExitOf(k) == session[k].exitCode

(* C8: for valid versions A and B exactly one of greater A B, lesser A B,  *)
(* equal A B exits 0 and the other two exit 1; and if lesser A B and       *)
(* lesser B C exit 0 then lesser A C exits 0.                              *)
C8_TrichotomyAndTransitivity ==
    /\ Len(session) >= 3 =>
          /\ {ExitOf(1), ExitOf(2), ExitOf(3)} = {0, 1}
          /\ Cardinality({k \in 1..3 : ExitOf(k) = 0}) = 1
    /\ Len(session) = 5 =>
          ((ExitOf(3) = 0 /\ ExitOf(4) = 0) => ExitOf(5) = 0)

C8_Witness ==
    /\ Len(session) = 5
    /\ ExitOf(1) = 1 /\ ExitOf(2) = 1 /\ ExitOf(3) = 0
    /\ ExitOf(4) = 0 /\ ExitOf(5) = 0
    /\ Parsed(1).pre # <<>> /\ Parsed(2).pre # <<>> /\ Parsed(3).pre = <<>>

SameButMetadata(a, b) ==
    /\ a.major = b.major /\ a.minor = b.minor /\ a.patch = b.patch
    /\ Split(a.pre, ".") = Split(b.pre, ".")

(* C9: two valid versions with the same major, minor, patch and prerelease *)
(* that differ only in build metadata make equal exit 0 and greater and    *)
(* lesser exit 1; and equal exits 0 only if major, minor, patch and        *)
(* prerelease are all equal.                                               *)
C9_MetadataIgnored ==
    (command \in {"greater", "lesser", "equal"} /\ Done
        /\ NewVersion(argv[1]).ok /\ NewVersion(argv[2]).ok) =>
        /\ (SameButMetadata(Parsed(1), Parsed(2))
                /\ Parsed(1).metadata # Parsed(2).metadata) =>
              exitCode = IF command = "equal" THEN 0 ELSE 1
        /\ (command = "equal" /\ exitCode = 0) =>
              SameButMetadata(Parsed(1), Parsed(2))

C9_Witness ==
    /\ command = "equal" /\ pc = "exited" /\ exitCode = 0
    /\ NewVersion(argv[1]).ok /\ NewVersion(argv[2]).ok
    /\ Parsed(1).pre # <<>>
    /\ Parsed(1).metadata # Parsed(2).metadata

====
